---- MODULE Spec2Model ----
(***************************************************************************)
(* Model of the bitmap page encoder: Initializeprinting (page geometry     *)
(* planner and superblock builder), Printnextpage (page assembler and      *)
(* bitmap writer) and Drawblock (dot painter), driven by the outer stepper.*)
(***************************************************************************)
EXTENDS Integers, Sequences, FiniteSets, TLC

(***************************************************************************)
(* Program constants. NDOT, NDATA, SUPERBLOCK, the width of the name field  *)
(* and the step numbers are declared outside the files modelled here.      *)
(***************************************************************************)
\* dots per block edge
NDOT == 32
\* data bytes per block: 128 - 4 (addr) - 2 (crc) - 32 (ecc)
NDATA == 90
\* sizeof(print->superdata.name)
NameSize == 64
\* 0xFFFFFFFF as a 32-bit pattern
SUPERBLOCK == -1

\* Values of print->step seen by the outer stepper.
StepIdle == 0
StepInit == 6
StepPrint == 7
StepFinish == 8

ErrSmall == "Printable area is too small, reduce borders or block size"
ErrOutbmp == "Outbmp unspecified, can not creat BMP"
ErrMemory == "Low memory, can't create bitmap"
ErrCreate == "Unable to create bitmap file"
ErrSave == "Unable to save bitmap"

(***************************************************************************)
(* Bounds of the model.                                                    *)
(***************************************************************************)
MaxRedundancy == 3
MaxBlocks == 8
MaxPad == 6
MaxNameOver == 1

(***************************************************************************)
(* C arithmetic.                                                           *)
(***************************************************************************)
Max(a, b) == IF a > b THEN a ELSE b
Min(a, b) == IF a < b THEN a ELSE b

\* int division truncates toward zero
CDiv(a, b) == IF a >= 0 THEN a \div b ELSE -((-a) \div b)

RECURSIVE Xor(_, _)
Xor(a, b) ==
  IF a = 0 THEN b
  ELSE IF b = 0 THEN a
  ELSE (((a % 2) + (b % 2)) % 2) + 2 * Xor(a \div 2, b \div 2)

\* x & 0xFFFFFFFC for a non-negative x
AndFFFFFFFC(x) == x - (x % 4)

(***************************************************************************)
(* Inputs: the prepared buffer and the file name.                          *)
(***************************************************************************)
\* byte i of print->buf
BufByte(i) == ((i * 7) + ((i \div NDATA) * 13) + 1) % 256

\* a string of len non-zero characters
Chars(len) == [i \in 1..len |-> 97 + (i % 26)]

\* fnsplit: the name and extension components; EXTENSION flag when ext is present
FnsplitHasExt(infile) == Len(infile.ext) > 0

\* fnmerge(fil,NULL,NULL,nam,ext)
Fnmerge(nam, ext) == nam \o ext

\* strncpy(dst,src,n): copies src up to n chars and pads with zeros to n
Strncpy(src, n) == [i \in 1..n |-> IF i <= Len(src) THEN src[i] ELSE 0]

(***************************************************************************)
(* Page geometry planner (Initializeprinting).                             *)
(***************************************************************************)
PageWidth(ppix) == CDiv(ppix * 8270, 1000)
PageHeight(ppiy) == CDiv(ppiy * 11690, 1000)

DotPitch(ppi, dpi) == Max(CDiv(ppi, dpi), 2)
DotSize(d, dotpercent) == Max(CDiv(d * dotpercent, 100), 1)

BorderWidth(printborder, outbmp, dx) ==
  IF printborder THEN dx * 16
  ELSE IF outbmp THEN 25
  ELSE 0

\* CellPitch with the gap multiplied instead of added
CellPitchTriple(d) == NDOT * d * 3

CellPitch(d) == NDOT * d + 3 * d

CellsAcross(area, p, border, d) == CDiv(area - p - 2 * border, CellPitch(d))

TooSmall(nx, ny, redundancy) ==
  nx < redundancy + 1 \/ ny < 3 \/ nx * ny < 2 * redundancy + 2

FinalWidth(nx, dx, px, border) ==
  AndFFFFFFFC(nx * (NDOT + 3) * dx + px + 2 * border + 3)

FinalHeight(ny, dy, py, border) == ny * (NDOT + 3) * dy + py + 2 * border

PageSize(nx, ny, redundancy) ==
  CDiv(nx * ny - redundancy - 2, redundancy + 1) * redundancy * NDATA

(***************************************************************************)
(* State.                                                                  *)
(*   pb      process-wide configuration (pb_resx, pb_resy, pb_dpi,         *)
(*           pb_dotpercent)                                                *)
(*   print   the print job (t_printdata), superdata included               *)
(*   page    locals of the latest Printnextpage call that assembled a page *)
(*   drawn   the Drawblock calls of that page, in call order               *)
(*   errors  messages passed to Reporterror so far                         *)
(*   files   the bitmap file of the latest page: opened, closed, number of  *)
(*           complete writes; ioerr: fopen or a write has failed so far     *)
(*   hist    history: bytes copied from the buffer so far (useful), the    *)
(*           address after the latest data block (next), whether every     *)
(*           data block so far had the address after its predecessor       *)
(*           (contiguous), and the name-relative indexes stored by the     *)
(*           name copy and its termination (namewr)                        *)
(***************************************************************************)
VARIABLES pb, print, page, drawn, errors, files, hist

vars == <<pb, print, page, drawn, errors, files, hist>>

NoPage == [nstring |-> 0, ny |-> 0]

\* The job as the preceding steps leave it: buffer prepared, geometry unset.
NewJob(infile, outbmp, redundancy, printborder, datasize, alignedsize) ==
  [step |-> StepInit, infile |-> infile, outbmp |-> outbmp,
   redundancy |-> redundancy, printborder |-> printborder,
   extratop |-> 0, extrabottom |-> 0,
   datasize |-> datasize, alignedsize |-> alignedsize,
   frompage |-> 0, topage |-> 0, ppix |-> 0, ppiy |-> 0, black |-> 0,
   borderleft |-> 0, borderright |-> 0, bordertop |-> 0, borderbottom |-> 0,
   border |-> 0, drawbits |-> 0, pagesize |-> 0,
   width |-> 0, height |-> 0, dx |-> 0, dy |-> 0, px |-> 0, py |-> 0,
   nx |-> 0, ny |-> 0,
   superdata |-> [addr |-> 0, datasize |-> 0, pagesize |-> 0, page |-> 0,
                  name |-> [i \in 1..NameSize |-> 204], crc0 |-> 204]]

InitWith(Configs, Jobs) ==
  /\ pb \in Configs
  /\ print \in Jobs
  /\ page = NoPage
  /\ drawn = <<>>
  /\ errors = {}
  /\ files = [opened |-> FALSE, closed |-> FALSE, written |-> 0, ioerr |-> FALSE]
  /\ hist = [useful |-> 0, next |-> 0, contiguous |-> TRUE, namewr |-> {}]

(***************************************************************************)
(* Reporterror and Stopprinting.                                           *)
(***************************************************************************)
Reporterror(msg) == errors \cup {msg}

\* Stopprinting: releases the bitmap and puts the job into the terminal state
Stopprinting(p) == [p EXCEPT !.step = StepIdle, !.drawbits = 0]

(***************************************************************************)
(* Initializeprinting.                                                     *)
(***************************************************************************)
\* Prepare superdata: addr, datasize and the name (strncpy and termination);
\* origsize, mode, attributes, modified and filecrc are copied from the job
\* and read by nothing modelled here.
\* The store to name[dataSize] is one past the field; stored says whether
\* the build performs it (it then lands on the byte that follows the field).
PrepareSuperdata(p, stored) ==
  LET fil == IF FnsplitHasExt(p.infile)
             THEN Fnmerge(p.infile.nam, p.infile.ext)
             ELSE Fnmerge(p.infile.nam, <<>>)
      dataSize == NameSize
  IN [p.superdata EXCEPT
        !.addr = SUPERBLOCK,
        !.datasize = p.alignedsize,
        !.name = Strncpy(fil, dataSize),
        !.crc0 = IF stored THEN 0 ELSE @]

\* name-relative indexes stored by strncpy and by name[dataSize]='\0'
NameStores(stored) ==
  LET dataSize == NameSize
  IN (0..(dataSize - 1)) \cup (IF stored THEN {dataSize} ELSE {})

\* Resolution, borders and the printable area in printer pixels.
WithDefaults(p) ==
  [p EXCEPT
     !.frompage = 0,
     !.topage = 9999,
     !.ppix = IF pb.resx = 0 \/ pb.resy = 0 THEN 300 ELSE pb.resx,
     !.ppiy = IF pb.resx = 0 \/ pb.resy = 0 THEN 300 ELSE pb.resy,
     !.black = 64]

WithBorders(p) ==
  [p EXCEPT
     !.borderleft = p.ppix,
     !.borderright = CDiv(p.ppix, 2),
     !.bordertop = CDiv(p.ppiy, 2),
     !.borderbottom = CDiv(p.ppiy, 2)]

\* The values computed by the planner from the job p (defaults and borders set).
Plan(p) ==
  LET width0 == PageWidth(p.ppix) - (p.borderleft + p.borderright)
      height0 == PageHeight(p.ppiy) -
                 (p.bordertop + p.borderbottom + p.extratop + p.extrabottom)
      dx == DotPitch(p.ppix, pb.dpi)
      px == DotSize(dx, pb.dotpercent)
      dy == DotPitch(p.ppiy, pb.dpi)
      py == DotSize(dy, pb.dotpercent)
      border == BorderWidth(p.printborder, p.outbmp, dx)
      nx == CellsAcross(width0, px, border, dx)
      ny == CellsAcross(height0, py, border, dy)
  IN [dx |-> dx, dy |-> dy, px |-> px, py |-> py, border |-> border,
      nx |-> nx, ny |-> ny,
      width |-> FinalWidth(nx, dx, px, border),
      height |-> FinalHeight(ny, dy, py, border)]

\* mallocok: whether malloc(width*height) returns a buffer.
Initializeprinting(mallocok, stored) ==
  LET p0 == [print EXCEPT !.superdata = PrepareSuperdata(print, stored)]
      p1 == WithBorders(WithDefaults(p0))
      g == Plan(p1)
      p2 == [p1 EXCEPT !.border = g.border]
  IN /\ hist' = [hist EXCEPT !.namewr = @ \cup NameStores(stored)]
     /\ UNCHANGED <<pb, page, drawn, files>>
     /\ IF TooSmall(g.nx, g.ny, p2.redundancy)
        THEN /\ errors' = Reporterror(ErrSmall)
             /\ print' = Stopprinting(p2)
        ELSE IF ~p2.outbmp
        THEN /\ errors' = Reporterror(ErrOutbmp)
             /\ print' = Stopprinting(p2)
        ELSE IF ~mallocok
        THEN /\ errors' = Reporterror(ErrMemory)
             /\ print' = p2
        ELSE /\ errors' = errors
             /\ print' = [p2 EXCEPT
                  !.drawbits = g.width * g.height,
                  !.pagesize = PageSize(g.nx, g.ny, p2.redundancy),
                  !.superdata.pagesize = PageSize(g.nx, g.ny, p2.redundancy),
                  !.width = g.width, !.height = g.height,
                  !.dx = g.dx, !.dy = g.dy, !.px = g.px, !.py = g.py,
                  !.nx = g.nx, !.ny = g.ny,
                  !.step = @ + 1]

(***************************************************************************)
(* Printnextpage: layout of the blocks on a page.                          *)
(***************************************************************************)
\* Rotation of the j-th string.
Rot(j, nstring, nx, redundancy) ==
  ((CDiv(nx, redundancy + 1) * j) - ((j * (nstring + 1)) % nx) + nx) % nx

\* Cell of the superblock that starts string j.
SuperCell(j, nstring, nx, redundancy) ==
  LET k == j * (nstring + 1)
  IN IF nstring + 1 >= nx
     THEN k + (((CDiv(nx, redundancy + 1) * j) - (k % nx) + nx) % nx)
     ELSE k

\* DataCell without the wrap inside the string
DataCellNoWrap(i, j, nstring, nx, redundancy) ==
  LET k == j * (nstring + 1)
  IN IF nstring + 1 < nx
     THEN k + i + 1
     ELSE k + (i + 1 + Rot(j, nstring, nx, redundancy))

\* Cell of data block j of group i.
DataCell(i, j, nstring, nx, redundancy) ==
  LET k == j * (nstring + 1)
  IN IF nstring + 1 < nx
     THEN k + i + 1
     ELSE k + ((i + 1 + Rot(j, nstring, nx, redundancy)) % (nstring + 1))

\* Cell of the redundancy block of group i.
CksumCell(i, nstring, nx, redundancy) ==
  LET k == redundancy * (nstring + 1)
  IN IF nstring + 1 < nx
     THEN k + i + 1
     ELSE k + ((i + 1 + Rot(redundancy, nstring, nx, redundancy)) % (nstring + 1))

\* Rows used by a page that starts at offset: the short last page.
\* size-offset is uint32_t: below zero it wraps to a value above any pagesize
PageL(size, offset, pagesize) ==
  IF size >= offset THEN Min(size - offset, pagesize) ELSE pagesize

PageStrings(l, redundancy) ==
  LET n == CDiv(l + NDATA - 1, NDATA)
  IN CDiv(n + redundancy - 1, redundancy)

PageRows(nstring, redundancy, nx, ny) ==
  LET n == (nstring + 1) * (redundancy + 1) + 1
      rows == Max(CDiv(n + nx - 1, nx), 3)
  IN IF ny > rows THEN rows ELSE ny

(***************************************************************************)
(* Printnextpage: the blocks.                                              *)
(***************************************************************************)
\* block.data for the block at offset: bytes of the buffer, zeros past size
BlockData(size, offset) ==
  LET l == IF offset < size THEN Min(size - offset, NDATA) ELSE 0
  IN [b \in 1..NDATA |-> IF b <= l THEN BufByte(offset + b - 1) ELSE 0]

\* bytes copied from the buffer into the block at offset
BlockUseful(size, offset) ==
  IF offset < size THEN Min(size - offset, NDATA) ELSE 0

\* CksumInit cleared to zero
CksumInitZero == [b \in 1..NDATA |-> 0]

\* memset(cksum.data,0xFF,NDATA)
CksumInit == [b \in 1..NDATA |-> 255]

XorData(c, d) == [b \in 1..NDATA |-> Xor(c[b], d[b])]

\* cksum.data after the first j blocks of the group that starts at offset
RECURSIVE CksumData(_, _, _)
CksumData(size, offset, j) ==
  IF j = 0 THEN CksumInit
  ELSE XorData(CksumData(size, offset, j - 1),
               BlockData(size, offset + (j - 1) * NDATA))

\* cksum.addr = offset ^ (redundancy<<28), as the top 4 and the low 28 bits
\* of the 32-bit word
CksumAddr(offset, redundancy) ==
  [hi |-> Xor((offset \div 268435456) % 16, redundancy % 16),
   lo |-> offset % 268435456]

Call(k, kind, addr, data, i, j) ==
  [index |-> k, kind |-> kind, addr |-> addr, data |-> data, group |-> i, string |-> j]

\* c: the frequently used variables of the page
HeaderCalls(c) ==
  [n \in 1..(c.redundancy + 1) |->
     Call(SuperCell(n - 1, c.nstring, c.nx, c.redundancy),
          "super", SUPERBLOCK, <<>>, -1, n - 1)]

\* Drawblock calls of group i: redundancy data blocks, then the redundancy block
GroupCalls(c, i) ==
  LET offset == c.offset + i * c.redundancy * NDATA
  IN [n \in 1..(c.redundancy + 1) |->
        IF n <= c.redundancy
        THEN Call(DataCell(i, n - 1, c.nstring, c.nx, c.redundancy), "data",
                  offset + (n - 1) * NDATA,
                  BlockData(c.size, offset + (n - 1) * NDATA), i, n - 1)
        ELSE Call(CksumCell(i, c.nstring, c.nx, c.redundancy), "cksum",
                  CksumAddr(offset, c.redundancy),
                  CksumData(c.size, offset, c.redundancy), i, c.redundancy)]

RECURSIVE GroupsFrom(_, _)
GroupsFrom(c, i) ==
  IF i >= c.nstring THEN <<>> ELSE GroupCalls(c, i) \o GroupsFrom(c, i + 1)

\* superblock in all remaining cells
FillerCalls(c) ==
  LET first == (c.nstring + 1) * (c.redundancy + 1)
  IN [n \in 1..Max(c.nx * c.ny - first, 0) |->
        Call(first + n - 1, "filler", SUPERBLOCK, <<>>, -1, -1)]

PageCalls(c) == HeaderCalls(c) \o GroupsFrom(c, 0) \o FillerCalls(c)

DataAddrs(calls) ==
  LET d == SelectSeq(calls, LAMBDA x : x.kind = "data")
  IN [n \in 1..Len(d) |-> d[n].addr]

\* the addresses are first, first+NDATA, first+2*NDATA, ...
InSteps(addrs, first) ==
  \A n \in 1..Len(addrs) : addrs[n] = first + (n - 1) * NDATA

RECURSIVE SumUseful(_, _)
SumUseful(size, addrs) ==
  IF addrs = <<>> THEN 0
  ELSE BlockUseful(size, Head(addrs)) + SumUseful(size, Tail(addrs))

(***************************************************************************)
(* Printnextpage: byte offsets written into the bitmap (bits).             *)
(* g: width, height (of this page), border, nx, ny, dx, dy, px, py,        *)
(* printborder.                                                            *)
(***************************************************************************)
\* memset(bits,255,height*width)
ClearOffsets(g) == [lo |-> 0, hi |-> g.height * g.width - 1]

\* bits[basex+k]=0 of the vertical grid lines
VLineOffsets(g) ==
  IF g.printborder
  THEN { (i * (NDOT + 3) * g.dx + g.border) + j * g.width + k :
           i \in 0..g.nx,
           j \in 0..((g.ny * (NDOT + 3) * g.dy + g.py + 2 * g.border) - 1),
           k \in 0..(g.px - 1) }
  ELSE { (i * (NDOT + 3) * g.dx + g.width * g.border + g.border) + j * g.width + k :
           i \in 0..g.nx,
           j \in 0..((g.ny * (NDOT + 3) * g.dy) - 1),
           k \in 0..(g.px - 1) }

\* the memset calls of the horizontal grid lines, each as first and last offset
HLineOffsets(g) ==
  IF g.printborder
  THEN { [lo |-> (j * (NDOT + 3) * g.dy + k + g.border) * g.width,
          hi |-> (j * (NDOT + 3) * g.dy + k + g.border) * g.width + g.width - 1] :
           j \in 0..g.ny, k \in 0..(g.py - 1) }
  ELSE { [lo |-> (j * (NDOT + 3) * g.dy + k + g.border) * g.width + g.border,
          hi |-> (j * (NDOT + 3) * g.dy + k + g.border) * g.width + g.border
                   + (g.nx * (NDOT + 3) * g.dx + g.px) - 1] :
           j \in 0..g.ny, k \in 0..(g.py - 1) }

\* Drawblock: start of the block in bits
DrawblockBase(index, g) ==
  LET x == (index % g.nx) * (NDOT + 3) * g.dx + 2 * g.dx + g.border
      y == CDiv(index, g.nx) * (NDOT + 3) * g.dy + 2 * g.dy + g.border
  IN (g.height - y - 1) * g.width + x

\* Drawblock: offsets of the dots of word j (any bit of the block may be set)
DrawblockOffsets(index, g) ==
  LET base == DrawblockBase(index, g)
      width == g.width
      dx == g.dx
      dy == g.dy
  IN { base - j * dy * width + i * dx - m * width + n :
         j \in 0..31, i \in 0..31, m \in 0..(g.py - 1), n \in 0..(g.px - 1) }

(***************************************************************************)
(* Printnextpage.                                                          *)
(***************************************************************************)
\* outcome of saving the bitmap: fopen fails, one of the three fwrite calls
\* returns a short count, or all succeed
IOOutcomes == {"nofile", "short1", "short2", "short3", "ok"}

\* uint32_t offset; the products of the model stay below 2^31
PageOffset(p) == p.frompage * p.pagesize

\* AllPrinted with offset > datasize
AllPrintedStrict(p) == PageOffset(p) > p.datasize \/ p.frompage > p.topage

AllPrinted(p) == PageOffset(p) >= p.datasize \/ p.frompage > p.topage

\* PageHeightOf without the closing grid line
PageHeightNoLine(ny, dy, py, border) == ny * (NDOT + 3) * dy + 2 * border

PageHeightOf(ny, dy, py, border) == ny * (NDOT + 3) * dy + py + 2 * border

\* the frequently used variables of the page that print is about to assemble
PageVars(p) ==
  LET offset == PageOffset(p)
      l == PageL(p.alignedsize, offset, p.pagesize)
      nstring == PageStrings(l, p.redundancy)
      ny == PageRows(nstring, p.redundancy, p.nx, p.ny)
  IN [offset |-> offset, l |-> l, nstring |-> nstring, ny |-> ny, nx |-> p.nx,
      height |-> PageHeightOf(ny, p.dy, p.py, p.border),
      width |-> p.width, border |-> p.border,
      dx |-> p.dx, dy |-> p.dy, px |-> p.px, py |-> p.py,
      printborder |-> p.printborder, redundancy |-> p.redundancy,
      size |-> p.alignedsize, bits |-> p.drawbits, frompage |-> p.frompage,
      npages |-> CDiv(p.datasize + p.pagesize - 1, p.pagesize)]

\* Save bitmap to file, then count the page. io: the outcome of fopen and of
\* the fwrite calls.
SaveBitmap(p, io) ==
  IF io = "nofile"
  THEN /\ errors' = Reporterror(ErrCreate)
       /\ print' = Stopprinting(p)
       /\ files' = [opened |-> FALSE, closed |-> FALSE, written |-> 0, ioerr |-> TRUE]
  ELSE IF io = "short1"
  THEN \* success=0: the block that writes the rest, closes the file and
       \* checks success is skipped
       /\ errors' = errors
       /\ print' = [p EXCEPT !.frompage = @ + 1]
       /\ files' = [opened |-> TRUE, closed |-> FALSE, written |-> 0, ioerr |-> TRUE]
  ELSE IF io \in {"short2", "short3"}
  THEN /\ errors' = Reporterror(ErrSave)
       /\ print' = Stopprinting(p)
       /\ files' = [opened |-> TRUE, closed |-> TRUE,
                    written |-> IF io = "short2" THEN 1 ELSE 2, ioerr |-> TRUE]
  ELSE /\ errors' = errors
       /\ print' = [p EXCEPT !.frompage = @ + 1]
       /\ files' = [opened |-> TRUE, closed |-> TRUE, written |-> 3, ioerr |-> files.ioerr]

Printnextpage ==
  IF AllPrinted(print)
  THEN /\ print' = [print EXCEPT !.step = @ + 1]
       /\ UNCHANGED <<pb, page, drawn, errors, files, hist>>
  ELSE LET c == PageVars(print)
           calls == PageCalls(c)
       IN /\ page' = c
          /\ drawn' = calls
          /\ hist' = [hist EXCEPT
                        !.useful = @ + SumUseful(c.size, DataAddrs(calls)),
                        !.next = @ + Len(DataAddrs(calls)) * NDATA,
                        !.contiguous = @ /\ InSteps(DataAddrs(calls), hist.next)]
          /\ UNCHANGED pb
          /\ \E io \in IOOutcomes :
               SaveBitmap([print EXCEPT !.superdata.page = (print.frompage + 1) % 65536], io)

(***************************************************************************)
(* The outer stepper: one component per invocation.                        *)
(***************************************************************************)
StepInitialize ==
  /\ print.step = StepInit
  /\ \E mallocok \in BOOLEAN, stored \in BOOLEAN : Initializeprinting(mallocok, stored)

StepPage ==
  /\ print.step = StepPrint
  /\ Printnextpage

StepStop ==
  /\ print.step = StepFinish
  /\ print' = Stopprinting(print)
  /\ UNCHANGED <<pb, page, drawn, errors, files, hist>>

Next == StepInitialize \/ StepPage \/ StepStop

(***************************************************************************)
(* Specifications.                                                         *)
(***************************************************************************)
Redundancies == 1..MaxRedundancy

DataSizes == { n * NDATA + d : n \in 0..MaxBlocks, d \in {0, 1} }

Pads == {0, MaxPad}

Configs == [resx : {50}, resy : {30, 50}, dpi : {30}, dotpercent : {70}]

\* an empty buffer has no padding
Jobs ==
  { job \in
      { NewJob([nam |-> Chars(8), ext |-> Chars(4)], outbmp, r, pbord, ds, ds + pad) :
          outbmp \in BOOLEAN, r \in Redundancies, pbord \in BOOLEAN,
          ds \in DataSizes, pad \in Pads } :
      job.datasize > 0 \/ job.alignedsize = 0 }

Init == InitWith(Configs, Jobs)

Spec == Init /\ [][Next]_vars

(***************************************************************************)
(* Properties of the assembled page.                                       *)
(***************************************************************************)
Assembled == drawn # <<>>

Calls(kind) == { n \in 1..Len(drawn) : drawn[n].kind = kind }

Column(n) == drawn[n].index % page.nx

\* C1: the cell indices passed to Drawblock on a page are exactly
\* 0 .. nx*ny-1 (ny the rows of that page), each drawn once: redundancy+1
\* header superblocks, nstring*redundancy data blocks, nstring redundancy
\* blocks, and superblocks in all remaining cells.
C1_EveryCellDrawnOnce ==
  Assembled =>
    /\ Len(drawn) = page.nx * page.ny
    /\ { drawn[n].index : n \in 1..Len(drawn) } = 0..(page.nx * page.ny - 1)
    /\ Cardinality(Calls("super")) = page.redundancy + 1
    /\ Cardinality(Calls("data")) = page.nstring * page.redundancy
    /\ Cardinality(Calls("cksum")) = page.nstring
    /\ Cardinality(Calls("filler")) =
         page.nx * page.ny - (page.nstring + 1) * (page.redundancy + 1)

\* a shortened last page in the skewed case, with cells left for fillers
C1_Witness ==
  /\ Assembled
  /\ page.nstring + 1 >= page.nx
  /\ page.ny < print.ny
  /\ Calls("filler") # {}
  /\ page.frompage > 0

\* C2: on a page with nstring+1 >= nx the data blocks and the redundancy
\* block of one group lie in pairwise distinct columns.
C2_GroupColumnsDistinct ==
  (Assembled /\ page.nstring + 1 >= page.nx) =>
    \A a, b \in Calls("data") \cup Calls("cksum") :
      (a # b /\ drawn[a].group = drawn[b].group) => Column(a) # Column(b)

\* bytewise XOR of byte b of the data blocks of group i
RECURSIVE XorOfBlocks(_, _)
XorOfBlocks(blocks, b) ==
  IF blocks = <<>> THEN 0
  ELSE Xor(Head(blocks).data[b], XorOfBlocks(Tail(blocks), b))

GroupData(i) == SelectSeq(drawn, LAMBDA x : x.kind = "data" /\ x.group = i)

\* C3 as stated: the data of a group's redundancy block is the bytewise XOR
\* of the data of the group's data blocks.
C3_ParityIsXor ==
  \A n \in Calls("cksum") :
    \A b \in 1..NDATA :
      drawn[n].data[b] = XorOfBlocks(GroupData(drawn[n].group), b)

\* C3 amended: the data of a group's redundancy block is the bytewise
\* complement (XOR with 0xFF) of the XOR of the group's data blocks; with
\* redundancy 1 it is the complement of the single data block.
C3_ParityIsComplementOfXor ==
  \A n \in Calls("cksum") :
    /\ Len(GroupData(drawn[n].group)) = page.redundancy
    /\ \A b \in 1..NDATA :
         drawn[n].data[b] = 255 - XorOfBlocks(GroupData(drawn[n].group), b)

\* a group of two or more data blocks, the last one past the end of the buffer
C3_Witness ==
  \E n \in Calls("cksum") :
    LET g == GroupData(drawn[n].group)
    IN /\ Len(g) >= 2
       /\ g[Len(g)].addr >= print.alignedsize
       /\ \E b \in 1..NDATA : g[1].data[b] # 0

\* pages needed for the data
PagesNeeded ==
  Min(CDiv(print.datasize + print.pagesize - 1, print.pagesize), print.topage + 1)

\* C4: after a complete run without I/O errors the bytes copied from the
\* buffer sum to alignedsize, the data block addresses are 0, NDATA,
\* 2*NDATA, ... without gap or repeat, and each data block holds the bytes
\* of the buffer at its address and zeros from alignedsize on.
C4_AllAlignedBytesWritten ==
  (print.step = StepFinish /\ ~files.ioerr) =>
    /\ hist.useful = print.alignedsize
    /\ hist.contiguous
    /\ \A n \in Calls("data") :
         \A b \in 1..NDATA :
           drawn[n].data[b] =
             IF drawn[n].addr + b - 1 < print.alignedsize
             THEN BufByte(drawn[n].addr + b - 1) ELSE 0

\* C5: a failed fopen or a short write is reported, stops the job, and the
\* page is not counted.
C5_IOFailureStops ==
  files.ioerr =>
    /\ print.step = StepIdle
    /\ (ErrCreate \in errors \/ ErrSave \in errors)
    /\ print.frompage = page.frompage

\* C6: a failed allocation of the bitmap puts the job into the terminal state.
C6_AllocFailureStops ==
  (ErrMemory \in errors) => (print.step = StepIdle /\ print.drawbits = 0)

\* C9: without I/O errors each invocation in the emit phase either emits page
\* frompage and counts it (when frompage*pagesize < datasize and
\* frompage <= topage), or emits nothing and advances the step, which
\* happens exactly when min(ceil(datasize/pagesize), topage+1) pages have
\* been emitted.
C9_PagesInOrderThenFinish ==
  [][ (print.step = StepPrint /\ ~files'.ioerr) =>
        IF print.frompage * print.pagesize < print.datasize
           /\ print.frompage <= print.topage
        THEN /\ print.frompage < PagesNeeded
             /\ page'.frompage = print.frompage
             /\ files'.written = 3 /\ files'.closed
             /\ print'.superdata.page = print.frompage + 1
             /\ print'.frompage = print.frompage + 1
             /\ print'.step = StepPrint
        ELSE /\ print.frompage = PagesNeeded
             /\ print'.step = StepFinish
             /\ print'.frompage = print.frompage
             /\ UNCHANGED <<page, drawn, files, hist>> ]_vars

\* the emit phase has finished after three or more pages, the last one short
C9_Witness ==
  /\ print.step = StepFinish
  /\ ~files.ioerr
  /\ print.frompage >= 3
  /\ print.datasize % print.pagesize # 0

(***************************************************************************)
(* The default A4 page at 300 dpi with pb_dpi = 200.                       *)
(***************************************************************************)
ConfigsA4 == [resx : {300}, resy : {300}, dpi : {200}, dotpercent : 1..100]

JobsA4 ==
  { NewJob([nam |-> Chars(8), ext |-> Chars(4)], TRUE, r, pbord, ds, ds) :
      r \in 1..15, pbord \in BOOLEAN, ds \in {0, 1} }

\* a page is assembled for the smallest and the largest dot only
InitA4 ==
  /\ InitWith(ConfigsA4, JobsA4)
  /\ print.datasize > 0 => pb.dotpercent \in {1, 100}

SpecA4 == InitA4 /\ [][Next]_vars

InitRan == print.step # StepInit \/ errors # {}

\* C7 as stated: on A4 at 300 dpi with pb_dpi = 200 the feasibility check
\* fails the job: "Printable area is too small" is reported, the job is
\* stopped without advancing the step, and no bitmap file is opened.
C7_A4At200IsTooSmall ==
  InitRan =>
    /\ ErrSmall \in errors
    /\ print.step = StepIdle
    /\ ~files.opened

\* C7 amended: on A4 at 300 dpi with pb_dpi = 200 (no space reserved for
\* header and footer) the feasibility check passes for every pb_dotpercent
\* in 1..100, redundancy in 1..15 and printborder: the grid is 28 cells wide
\* and 44 or 45 cells high, "Printable area is too small" is never
\* reported, and Initializeprinting advances the step unless the
\* allocation fails.
C7_A4At200IsFeasible ==
  /\ ErrSmall \notin errors
  /\ (InitRan /\ ErrMemory \notin errors) =>
       /\ print.pagesize > 0
       /\ print.drawbits > 0 \/ print.step = StepIdle
       /\ print.nx = 28
       /\ print.ny = (IF print.printborder THEN 44 ELSE 45)
       /\ ~TooSmall(print.nx, print.ny, print.redundancy)

\* the planner has passed the job with redundancy 15 and a page is saved
C7_Witness ==
  /\ print.redundancy = 15
  /\ pb.dotpercent = 100
  /\ print.step = StepPrint
  /\ files.written = 3

(***************************************************************************)
(* File names shorter than, as long as and longer than the name field.     *)
(***************************************************************************)
ConfigsName == [resx : {50}, resy : {30}, dpi : {30}, dotpercent : {70}]

JobsName ==
  { NewJob([nam |-> Chars(n), ext |-> e], TRUE, 1, pbord, ds, ds) :
      n \in {1, NameSize - 4, NameSize, NameSize + MaxNameOver},
      e \in {<<>>, Chars(4)}, pbord \in BOOLEAN, ds \in {1, 2 * NDATA} }

InitName == InitWith(ConfigsName, JobsName)

SpecName == InitName /\ [][Next]_vars

\* C8: after Initializeprinting has built the superblock the name field
\* holds a null terminator at an index inside the field, and the name copy
\* and its termination store no byte outside the field.
C8_NameTerminatedInsideField ==
  InitRan =>
    /\ \E i \in 1..NameSize : print.superdata.name[i] = 0
    /\ hist.namewr \subseteq 0..(NameSize - 1)

(***************************************************************************)
(* Pixel writes of a page.                                                 *)
(***************************************************************************)
ConfigsPix == [resx : {50}, resy : {40}, dpi : {15, 30}, dotpercent : {70, 100}]

JobsPix ==
  { NewJob([nam |-> Chars(8), ext |-> Chars(4)], TRUE, 1, pbord, ds, ds) :
      pbord \in BOOLEAN, ds \in {1, 8 * NDATA} }

\* the largest buffer only where it fills one page
InitPix ==
  /\ InitWith(ConfigsPix, JobsPix)
  /\ print.datasize > 1 => pb.dpi = 30

SpecPix == InitPix /\ [][Next]_vars

\* C10: every byte written while a page is assembled lies inside the bitmap
\* allocated by Initializeprinting (width*height bytes for the full-page
\* ny): the height of the page does not exceed the allocated height, and
\* the clearing memset, the vertical and horizontal grid lines and every
\* Drawblock call write at offsets in [0, width * height of the page).
C10_WritesInsideBitmap ==
  Assembled =>
    /\ page.bits = print.width * print.height
    /\ page.width = print.width
    /\ page.height <= print.height
    /\ page.height > 0
    /\ ClearOffsets(page).lo = 0
    /\ LET size == page.width * page.height
       IN /\ ClearOffsets(page).hi < size
          /\ \A o \in VLineOffsets(page) : 0 <= o /\ o < size
          /\ \A s \in HLineOffsets(page) : 0 <= s.lo /\ s.lo <= s.hi /\ s.hi < size
          /\ \A n \in 1..Len(drawn) :
               \A o \in DrawblockOffsets(drawn[n].index, page) : 0 <= o /\ o < size

\* a shortened page with the border raster and dots wider than one pixel
C10_Witness ==
  /\ Assembled
  /\ page.ny < print.ny
  /\ page.printborder
  /\ page.px > 1

====
